---------------------------- MODULE Spec2Model ----------------------------
(***************************************************************************)
(* Model of mg-server/GenerateMilestones.py: the two-stage milestone       *)
(* generation (list stage with retry and fallback, name normalisation,     *)
(* detail stage fanned out over a pool of 5 workers) and its two process-  *)
(* wide caches, and the saving of the generated milestones to the          *)
(* Milestones collection by the request handler index.                     *)
(*                                                                         *)
(* Text.  A Python string is a sequence of tokens.  The structural         *)
(* characters '(' ')' ',' ':' and the newline are tokens of their own, a   *)
(* blank next to a structural character or at an end of the string is the  *)
(* token " ", and every other token is an atom: a maximal run of           *)
(* characters that holds no structural character and neither begins nor    *)
(* ends with a blank (so "Sprint Planning" is one atom).                   *)
(***************************************************************************)
EXTENDS Integers, Sequences, FiniteSets, TLC

NL == "\n"

\* The characters str.strip() removes.
Whitespace == {" ", NL}

(***************************************************************************)
(* String primitives                                                       *)
(*                                                                         *)
(* TLC evaluates the argument of an operator each time the body uses the   *)
(* parameter.  An operator that uses a string several times therefore      *)
(* binds it first, as the one element of a set.                            *)
(***************************************************************************)

\* The one element of a set of one element.
TheOne(set) == CHOOSE r \in set : TRUE

\* tok in s
Contains(str, tok) == \E s \in {str} : \E p \in 1..Len(s) : s[p] = tok

\* s.count(tok)
Count(str, tok) ==
    TheOne({Cardinality({p \in 1..Len(s) : s[p] = tok}) : s \in {str}})

\* s.strip()
Strip(str) ==
    TheOne({ LET keep == {p \in 1..Len(s) : s[p] \notin Whitespace}
             IN  IF keep = {} THEN <<>>
                 ELSE LET lo == CHOOSE p \in keep : \A q \in keep : p <= q
                          hi == CHOOSE p \in keep : \A q \in keep : q <= p
                      IN  SubSeq(s, lo, hi)
             : s \in {str} })

\* Index of the first occurrence of tok in s (tok must occur).
FirstIndex(str, tok) ==
    TheOne({ CHOOSE p \in 1..Len(s) :
                 s[p] = tok /\ \A q \in 1..(p - 1) : s[q] # tok
             : s \in {str} })

\* s.split(sep): always at least one piece, empty pieces kept.
RECURSIVE Split(_, _)
Split(str, sep) ==
    TheOne({ IF ~Contains(s, sep) THEN <<s>>
             ELSE <<SubSeq(s, 1, FirstIndex(s, sep) - 1)>>
                      \o Split(SubSeq(s, FirstIndex(s, sep) + 1, Len(s)), sep)
             : s \in {str} })

\* s.split(sep, 1) for a string holding sep: <<before, after>> the first sep.
SplitFirst(str, sep) ==
    TheOne({ <<SubSeq(s, 1, p - 1), SubSeq(s, p + 1, Len(s))>>
             : <<s, p>> \in {<<str, FirstIndex(str, sep)>>} })

\* s.splitlines(): as split on the newline, without the empty last piece.
SplitLines(str) ==
    TheOne({ IF pieces[Len(pieces)] = <<>>
             THEN SubSeq(pieces, 1, Len(pieces) - 1)
             ELSE pieces
             : pieces \in {Split(str, NL)} })

\* str.lower() of one token: the atoms the gateway texts use in several cases.
LowerTok(tok) ==
    CASE tok \in {"Milestones", "MILESTONES", "milestones"} -> "milestones"
      [] tok \in {"Milestone", "milestone"} -> "milestone"
      [] tok \in {"Task", "task"} -> "task"
      [] OTHER -> tok

\* s.lower()
Lower(str) == TheOne({ [p \in 1..Len(s) |-> LowerTok(s[p])] : s \in {str} })

\* s.startswith(prefix)
StartsWith(str, prefix) ==
    \E s \in {str} :
        /\ Len(s) >= Len(prefix)
        /\ SubSeq(s, 1, Len(prefix)) = prefix

\* [m.strip() for m in pieces if m.strip()]
RECURSIVE SelectNonEmpty(_)
SelectNonEmpty(list) ==
    TheOne({ IF pieces = <<>> THEN <<>>
             ELSE TheOne({ (IF m # <<>> THEN <<m>> ELSE <<>>)
                               \o SelectNonEmpty(Tail(pieces))
                           : m \in {Strip(Head(pieces))} })
             : pieces \in {list} })

(***************************************************************************)
(* Program constants                                                       *)
(***************************************************************************)

\* dataset_preview: loaded once at start-up, part of every cache key.
dataset_preview == <<"preview">>

\* The hardcoded default milestones of generate_project_milestones.
DefaultMilestones ==
    << <<"Product Backlog Creation">>,
       <<"Sprint Planning">>,
       <<"Design & Prototyping">>,
       <<"Sprint Development Cycles">>,
       <<"Continuous Testing & QA">>,
       <<"Sprint Reviews & Retrospectives">>,
       <<"Final Integration & UAT", " ", "(", "User Acceptance Testing", ")">>,
       <<"Release & Deployment">>,
       <<"Post-Release Support & Maintenance">> >>

\* Variant: attempts < 2.
TwoRetries == 3 - 1

\* attempts < 3: the list stage retries while fewer than 3 retries were made.
MaxRetries == 3

\* Variant: a pool of one worker more.
SixWorkers == 5 + 1

\* ThreadPoolExecutor(max_workers=5)
max_workers == 5

\* The keys of a detail record.
MilestoneKey == <<"Milestone">>
expected_keys ==
    { MilestoneKey, <<"Task">>, <<"Time Estimate", " ", "(", "Days", ")">>,
      <<"KPI">>, <<"Risk Factors">>, <<"Risk Indicator">> }

(***************************************************************************)
(* Pure functions of the program                                           *)
(***************************************************************************)

\* milestones of a line that starts with the label.
NamesOfLine(line) == SelectNonEmpty(Split(SplitFirst(line, ":")[2], ","))

\* Variant: the scan goes on after a match, the last labelled line decides.
RECURSIVE ParseListLinesLast(_)
ParseListLinesLast(list) ==
    TheOne({ IF lines = <<>> THEN <<>>
             ELSE IF StartsWith(Lower(lines[Len(lines)]), <<"milestones", ":">>)
             THEN NamesOfLine(lines[Len(lines)])
             ELSE ParseListLinesLast(SubSeq(lines, 1, Len(lines) - 1))
             : lines \in {list} })

\* The list parser: the first line that starts with "milestones:" decides.
RECURSIVE ParseListLines(_)
ParseListLines(list) ==
    TheOne({ IF lines = <<>> THEN <<>>
             ELSE IF StartsWith(Lower(Head(lines)), <<"milestones", ":">>)
             THEN NamesOfLine(Head(lines))
             ELSE ParseListLines(Tail(lines))
             : lines \in {list} })

\* generated_text = content.strip(), then the scan of its lines.
ParseMilestoneList(content) == ParseListLines(SplitLines(Strip(content)))

\* Variant: balanced as nesting, no ')' before its '('.
NestedBalanced(str) ==
    \E s \in {str} :
        /\ Count(s, "(") = Count(s, ")")
        /\ \A p \in 1..Len(s) :
              Count(SubSeq(s, 1, p), "(") >= Count(SubSeq(s, 1, p), ")")

is_balanced(str) == \E s \in {str} : Count(s, "(") = Count(s, ")")

\* Variant: no entry is merged with the next.
MergeNever(milestone_names, i, combined) == <<i, combined>>

\* Variant: an unbalanced entry takes the next entry and no more.
MergeOnce(milestone_names, i, combined) ==
    IF ~is_balanced(combined) /\ i < Len(milestone_names)
    THEN <<i + 1, combined \o <<",", " ">> \o milestone_names[i + 1]>>
    ELSE <<i, combined>>

\* The inner loop of the name fix: <<i, combined>> when it ends.
RECURSIVE MergeFrom(_, _, _)
MergeFrom(milestone_names, index, name) ==
    TheOne({ IF ~is_balanced(combined) /\ i < Len(milestone_names)
             THEN MergeFrom(milestone_names, i + 1,
                            combined \o <<",", " ">> \o milestone_names[i + 1])
             ELSE <<i, combined>>
             : <<i, combined>> \in {<<index, name>>} })

\* Variant: a name that was emitted before is not emitted again.
RECURSIVE FixFromUnique(_, _, _)
FixFromUnique(milestone_names, index, fixed) ==
    TheOne({ IF i <= Len(milestone_names)
             THEN TheOne({ FixFromUnique(milestone_names, r[1] + 1,
                               IF \E k \in 1..Len(fixed_milestones) :
                                      fixed_milestones[k] = r[2]
                               THEN fixed_milestones
                               ELSE Append(fixed_milestones, r[2]))
                           : r \in {MergeFrom(milestone_names, i,
                                              milestone_names[i])} })
             ELSE fixed_milestones
             : <<i, fixed_milestones>> \in {<<index, fixed>>} })

\* The outer loop of the name fix, from index i with the names fixed so far.
RECURSIVE FixFrom(_, _, _)
FixFrom(milestone_names, index, fixed) ==
    TheOne({ IF i <= Len(milestone_names)
             THEN TheOne({ FixFrom(milestone_names, r[1] + 1,
                                   Append(fixed_milestones, r[2]))
                           : r \in {MergeFrom(milestone_names, i,
                                              milestone_names[i])} })
             ELSE fixed_milestones
             : <<i, fixed_milestones>> \in {<<index, fixed>>} })

\* fixed_milestones of run_model.
FixMilestones(milestone_names) ==
    TheOne({FixFrom(names, 1, <<>>) : names \in {milestone_names}})

\* Variant: every key is recorded, expected or not.
RECURSIVE ParseDetailLinesAnyKey(_, _)
ParseDetailLinesAnyKey(list, data) ==
    TheOne({ IF lines = <<>> THEN milestone_data
             ELSE ParseDetailLinesAnyKey(Tail(lines),
                      IF Contains(Head(lines), ":")
                      THEN TheOne({ (Strip(kv[1]) :> Strip(kv[2]))
                                        @@ milestone_data
                                    : kv \in {SplitFirst(Head(lines), ":")} })
                      ELSE milestone_data)
             : <<lines, milestone_data>> \in {<<list, data>>} })

\* The scan of the detail reply's lines into milestone_data.
RECURSIVE ParseDetailLines(_, _)
ParseDetailLines(list, data) ==
    TheOne({ IF lines = <<>> THEN milestone_data
             ELSE ParseDetailLines(Tail(lines),
                      IF Contains(Head(lines), ":")
                      THEN TheOne({ IF Strip(kv[1]) \in expected_keys
                                    THEN (Strip(kv[1]) :> Strip(kv[2]))
                                             @@ milestone_data
                                    ELSE milestone_data
                                    : kv \in {SplitFirst(Head(lines), ":")} })
                      ELSE milestone_data)
             : <<lines, milestone_data>> \in {<<list, data>>} })

\* Variant: a Milestone value the reply gave is kept.
KeepEchoed(data, milestone) ==
    TheOne({ IF <<"Milestone">> \in DOMAIN milestone_data
                /\ milestone_data[<<"Milestone">>] # <<>>
             THEN milestone_data
             ELSE (<<"Milestone">> :> milestone) @@ milestone_data
             : milestone_data \in {data} })

\* The Milestone entry is set to the milestone asked for in both branches.
EnforceMilestone(milestone_data, milestone) ==
    (MilestoneKey :> milestone) @@ milestone_data

\* milestone_data of generate_milestone_details_ollama for a reply.
ParseMilestoneDetails(content, milestone) ==
    EnforceMilestone(ParseDetailLines(Split(Strip(content), NL), <<>>), milestone)

\* new_row of process_milestone.
NewRow(project_name, project_description, milestone_details) ==
    milestone_details @@ (<<"Project Name">> :> project_name)
                      @@ (<<"Project Description">> :> project_description)

(***************************************************************************)
(* The explored window: invocations, requests, gateway replies             *)
(***************************************************************************)

\* The pipeline invocations (requests the process serves at the same time).
Invocations == {1, 2}

\* Gateway calls answered in the explored window of concurrent invocations.
MaxGatewayCalls == 4

\* The form data and company description a request brings to run_model.
Requests ==
    { [company_description |-> <<"c1">>, project_name |-> <<"P">>,
       project_description |-> <<"D">>],
      [company_description |-> <<"c2">>, project_name |-> <<"P">>,
       project_description |-> <<"D">>] }

\* "Here are the milestones:" / " Milestones: A": no line starts with the label.
ListReplyNoLabel ==
    <<"Here are the milestones", ":", NL, " ", "Milestones", ":", " ", "A">>

\* "Milestones: A, A": a repeated name.
ListReplyRepeated == <<"Milestones", ":", " ", "A", ",", " ", "A">>

\* "MILESTONES: D (p, c), , T (": a name split at its inner comma, an empty
\* piece and an unbalanced last name.
ListReplySplit ==
    <<" ", "MILESTONES", ":", " ", "D", " ", "(", "p", ",", " ", "c", ")",
      ",", " ", ",", " ", "T", " ", "(", NL>>

\* The texts the gateway returns for the list prompt.
ListReplies == {ListReplyNoLabel, ListReplyRepeated, ListReplySplit}

\* "Milestone: Wrong" / "Task: t1, t2" / "Owner: Alice"
DetailReplyEcho ==
    <<"Milestone", ":", " ", "Wrong", NL, "Task", ":", " ", "t1", ",", " ",
      "t2", NL, "Owner", ":", " ", "Alice">>

\* "KPI : k" / "task: x" / "Milestone:": an empty Milestone value.
DetailReplyEmpty ==
    <<"KPI", " ", ":", " ", "k", NL, "task", ":", " ", "x", NL,
      "Milestone", ":">>

\* The texts the gateway returns for the detail prompt.
DetailReplies == {DetailReplyEcho, DetailReplyEmpty}

(***************************************************************************)
(* State                                                                   *)
(***************************************************************************)
VARIABLES
    project_milestones_cache,  \* list cache: cache key -> milestone names
    milestone_details_cache,   \* detail cache: cache key -> milestone_data
    pc,               \* per invocation: where run_model, then index, stands
    request,          \* per invocation: its inputs
    project_id,       \* per invocation: the ProjectID of the form
    milestone_collection,  \* db.collection("Milestones"): document id -> data
    milestone_docs,   \* per invocation: the document ids index has read
    next_milestone_number,  \* per invocation: the number of the next id
    saved,            \* per invocation: generated milestones index has saved
    attempts,         \* per invocation: the attempts argument of the list stage
    milestone_names,  \* per invocation: what the list stage returned
    list_calls,       \* per invocation: gateway calls of its list stage
    list_reply,       \* per invocation: the last reply to its list prompt, as
                      \* <<text>>
    empty_parses,     \* per invocation: empty parses its list stage has seen
    list_origin,      \* per invocation: how its list stage ended
    preceded_by,      \* per invocation: same-input invocations that had ended
                      \* their list stage when this one entered it
    fixed_milestones, \* per invocation: the names after the fix
    task,             \* per invocation: per name, "queued", "calling" or "done"
    generated_text,   \* per invocation: per name, the reply its task received
                      \* from the gateway, as <<text>>
    results,          \* per invocation: per name, the row of its future
    detail_calls,     \* per detail cache key: gateway calls made for it
    budget            \* gateway calls the explored window still answers

cacheVars == <<project_milestones_cache, milestone_details_cache>>
listVars  == <<attempts, milestone_names, list_calls, list_reply,
               empty_parses, list_origin, preceded_by>>
poolVars  == <<fixed_milestones, task, generated_text, results, detail_calls>>

handlerVars == <<request, project_id, milestone_collection, milestone_docs,
                 next_milestone_number, saved>>

vars == <<cacheVars, pc, handlerVars, listVars, poolVars, budget>>

\* The future of a task that has not finished.
Pending == <<>>

\* generated_text of a task that received no reply; <<text>> once it has.
NoText == <<>>

\* cache_key of generate_project_milestones.
ListKey(r) ==
    <<r.company_description, r.project_name, r.project_description,
      dataset_preview>>

\* cache_key of generate_milestone_details_ollama.
DetailKey(r, milestone) ==
    <<r.project_name, r.project_description, milestone, dataset_preview>>

\* d[key] = value on a dict.
Put(d, key, value) == (key :> value) @@ d

DetailCallsFor(key) ==
    IF key \in DOMAIN detail_calls THEN detail_calls[key] ELSE 0

\* Tasks of invocation i that a worker is running.
InFlight(i) == {k \in 1..Len(task[i]) : task[i][k] = "calling"}

\* The ProjectID values of the forms.
ProjectIds == {"p1", "p2"}

\* index has not come to the Milestones collection, which is empty.
HandlerIdle(procs) ==
    /\ project_id = [i \in procs |-> "p1"]
    /\ milestone_collection = <<>>
    /\ milestone_docs = [i \in procs |-> {}]
    /\ next_milestone_number = [i \in procs |-> 0]
    /\ saved = [i \in procs |-> 0]

\* The state of the process when the requests of procs have reached
\* run_model, with calls gateway calls to be answered.
Start(procs, calls) ==
    /\ HandlerIdle(procs)
    /\ project_milestones_cache = <<>>
    /\ milestone_details_cache = <<>>
    /\ pc = [i \in procs |-> "entry"]
    /\ request \in [procs -> Requests]
    /\ attempts = [i \in procs |-> 0]
    /\ milestone_names = [i \in procs |-> <<>>]
    /\ list_calls = [i \in procs |-> 0]
    /\ list_reply = [i \in procs |-> NoText]
    /\ empty_parses = [i \in procs |-> 0]
    /\ list_origin = [i \in procs |-> "none"]
    /\ preceded_by = [i \in procs |-> {}]
    /\ fixed_milestones = [i \in procs |-> <<>>]
    /\ task = [i \in procs |-> <<>>]
    /\ generated_text = [i \in procs |-> <<>>]
    /\ results = [i \in procs |-> <<>>]
    /\ detail_calls = <<>>
    /\ budget = calls

Init == Start(Invocations, MaxGatewayCalls)

\* The gateway calls one invocation makes at most: the list calls of the
\* attempts 0..MaxRetries and one detail call for each default milestone.
CallsOfOneInvocation == 1 + MaxRetries + Len(DefaultMilestones)

\* One invocation alone, every gateway call of which is answered.
InitSolo == Start({1}, CallsOfOneInvocation)

(***************************************************************************)
(* generate_project_milestones                                             *)
(***************************************************************************)

\* Invocations with the inputs of i whose list stage has returned.
EndedListStage(i) ==
    {j \in DOMAIN pc \ {i} :
        /\ request[j] = request[i]
        /\ pc[j] \in {"normalize", "fanout", "done"}}

\* The note taken when the list stage is entered from run_model.
NotePreceding(i) ==
    IF attempts[i] = 0
    THEN preceded_by' = [preceded_by EXCEPT ![i] = EndedListStage(i)]
    ELSE UNCHANGED preceded_by

\* Entry of the function, at any attempt: the cache holds the key and its
\* value is returned (through every pending recursive call) to run_model.
ListHit(i) ==
    /\ pc[i] = "entry"
    /\ ListKey(request[i]) \in DOMAIN project_milestones_cache
    /\ milestone_names' =
           [milestone_names EXCEPT
               ![i] = project_milestones_cache[ListKey(request[i])]]
    /\ list_origin' = [list_origin EXCEPT ![i] = "cache"]
    /\ pc' = [pc EXCEPT ![i] = "normalize"]
    /\ NotePreceding(i)
    /\ UNCHANGED <<cacheVars, handlerVars, attempts, list_calls, list_reply,
                   empty_parses, poolVars, budget>>

\* Entry of the function, at any attempt: the key is missing, the prompt is
\* built and ollama.chat is called.
ListCall(i) ==
    /\ pc[i] = "entry"
    /\ ListKey(request[i]) \notin DOMAIN project_milestones_cache
    /\ budget > 0
    /\ budget' = budget - 1
    /\ list_calls' = [list_calls EXCEPT ![i] = @ + 1]
    /\ pc' = [pc EXCEPT ![i] = "wait"]
    /\ NotePreceding(i)
    /\ UNCHANGED <<cacheVars, handlerVars, attempts, milestone_names, list_reply,
                   empty_parses, list_origin, poolVars>>

\* Variant: the milestones are returned and the cache is left as it is.
ReturnWithoutStore(i, milestones, origin) ==
    /\ UNCHANGED project_milestones_cache
    /\ milestone_names' = [milestone_names EXCEPT ![i] = milestones]
    /\ list_origin' = [list_origin EXCEPT ![i] = origin]
    /\ pc' = [pc EXCEPT ![i] = "normalize"]

\* The milestones are stored under the key and returned.
StoreAndReturn(i, milestones, origin) ==
    /\ project_milestones_cache' =
           Put(project_milestones_cache, ListKey(request[i]), milestones)
    /\ milestone_names' = [milestone_names EXCEPT ![i] = milestones]
    /\ list_origin' = [list_origin EXCEPT ![i] = origin]
    /\ pc' = [pc EXCEPT ![i] = "normalize"]

\* Variant: the parse is stored and returned without the test for emptiness.
ListParsedUnchecked(i) ==
    /\ pc[i] = "wait"
    /\ \E content \in ListReplies :
          /\ list_reply' = [list_reply EXCEPT ![i] = <<content>>]
          /\ StoreAndReturn(i, ParseMilestoneList(content), "parsed")
    /\ UNCHANGED <<milestone_details_cache, handlerVars, attempts, list_calls,
                   empty_parses, preceded_by, poolVars, budget>>

\* ollama.chat returns one of texts, and its parse is not empty.
ListParsedFrom(i, texts) ==
    /\ pc[i] = "wait"
    /\ \E content \in texts :
          /\ ParseMilestoneList(content) # <<>>
          /\ list_reply' = [list_reply EXCEPT ![i] = <<content>>]
          /\ StoreAndReturn(i, ParseMilestoneList(content), "parsed")
    /\ UNCHANGED <<milestone_details_cache, handlerVars, attempts, list_calls,
                   empty_parses, preceded_by, poolVars, budget>>

ListParsed(i) == ListParsedFrom(i, ListReplies)

\* Variant: the parse is stored under the key before the test for emptiness.
ListRetryStoresEmpty(i) ==
    /\ pc[i] = "wait"
    /\ \E content \in ListReplies :
          /\ ParseMilestoneList(content) = <<>>
          /\ list_reply' = [list_reply EXCEPT ![i] = <<content>>]
    /\ attempts[i] < 3
    /\ project_milestones_cache' =
           ((ListKey(request[i]) :> <<>>) @@ project_milestones_cache)
    /\ attempts' = [attempts EXCEPT ![i] = @ + 1]
    /\ empty_parses' = [empty_parses EXCEPT ![i] = @ + 1]
    /\ pc' = [pc EXCEPT ![i] = "entry"]
    /\ UNCHANGED <<milestone_details_cache, handlerVars, milestone_names,
                   list_calls, list_origin, preceded_by, poolVars, budget>>

\* Variant: the function calls itself with attempts as it is.
ListRetryFromSameAttempt(i, texts) ==
    /\ pc[i] = "wait"
    /\ \E content \in texts :
          /\ ParseMilestoneList(content) = <<>>
          /\ list_reply' = [list_reply EXCEPT ![i] = <<content>>]
    /\ attempts[i] < 3
    /\ empty_parses' = [empty_parses EXCEPT ![i] = @ + 1]
    /\ pc' = [pc EXCEPT ![i] = "entry"]
    /\ UNCHANGED <<cacheVars, handlerVars, attempts, milestone_names, list_calls,
                   list_origin, preceded_by, poolVars, budget>>

\* ollama.chat returns one of texts, its parse is empty and attempts < 3:
\* the function calls itself with attempts + 1.
ListRetryFrom(i, texts) ==
    /\ pc[i] = "wait"
    /\ \E content \in texts :
          /\ ParseMilestoneList(content) = <<>>
          /\ list_reply' = [list_reply EXCEPT ![i] = <<content>>]
    /\ attempts[i] < MaxRetries
    /\ attempts' = [attempts EXCEPT ![i] = @ + 1]
    /\ empty_parses' = [empty_parses EXCEPT ![i] = @ + 1]
    /\ pc' = [pc EXCEPT ![i] = "entry"]
    /\ UNCHANGED <<cacheVars, handlerVars, milestone_names, list_calls,
                   list_origin, preceded_by, poolVars, budget>>

ListRetry(i) == ListRetryFrom(i, ListReplies)

\* ollama.chat returns one of texts, its parse is empty and attempts = 3:
\* the default milestones are used.
ListFallbackFrom(i, texts) ==
    /\ pc[i] = "wait"
    /\ \E content \in texts :
          /\ ParseMilestoneList(content) = <<>>
          /\ list_reply' = [list_reply EXCEPT ![i] = <<content>>]
    /\ ~(attempts[i] < MaxRetries)
    /\ empty_parses' = [empty_parses EXCEPT ![i] = @ + 1]
    /\ StoreAndReturn(i, DefaultMilestones, "fallback")
    /\ UNCHANGED <<milestone_details_cache, handlerVars, attempts, list_calls,
                   preceded_by, poolVars, budget>>

ListFallback(i) == ListFallbackFrom(i, ListReplies)

(***************************************************************************)
(* run_model                                                               *)
(***************************************************************************)

\* The names are fixed and handed to executor.map: one queued task a name.
Normalize(i) ==
    /\ pc[i] = "normalize"
    /\ LET fixed == FixMilestones(milestone_names[i])
       IN  /\ fixed_milestones' = [fixed_milestones EXCEPT ![i] = fixed]
           /\ task' = [task EXCEPT ![i] = [k \in 1..Len(fixed) |-> "queued"]]
           /\ generated_text' =
                  [generated_text EXCEPT ![i] = [k \in 1..Len(fixed) |-> NoText]]
           /\ results' = [results EXCEPT ![i] = [k \in 1..Len(fixed) |-> Pending]]
    /\ pc' = [pc EXCEPT ![i] = "fanout"]
    /\ UNCHANGED <<cacheVars, handlerVars, listVars, detail_calls, budget>>

\* A worker is free and task k is the next of the queue.
CanStart(i, k) ==
    /\ pc[i] = "fanout"
    /\ k \in 1..Len(task[i])
    /\ task[i][k] = "queued"
    /\ \A j \in 1..(k - 1) : task[i][j] # "queued"
    /\ Cardinality(InFlight(i)) < max_workers

\* Variant: the results are collected as the tasks complete.
PlaceAtFirstPending(rows, k, row) ==
    LET free == {p \in 1..Len(rows) : rows[p] = <<>>}
        slot == CHOOSE p \in free : \A q \in free : p <= q
    IN  [rows EXCEPT ![slot] = row]

\* executor.map yields the results in the order of the names: the row of
\* task k is the k-th result.
PlaceResult(rows, k, row) == [rows EXCEPT ![k] = row]

\* process_milestone once the details are there: the Milestone entry is set
\* again (on the dict the cache holds) and the row is the task's result.
FinishTask(i, k, cache, key) ==
    LET milestone == fixed_milestones[i][k]
        details   == EnforceMilestone(cache[key], milestone)
    IN  /\ milestone_details_cache' = Put(cache, key, details)
        /\ results' =
               [results EXCEPT
                   ![i] = PlaceResult(@, k,
                              NewRow(request[i].project_name,
                                     request[i].project_description, details))]
        /\ task' = [task EXCEPT ![i][k] = "done"]

\* A worker takes task k; the detail cache holds its key.
TaskHit(i, k) ==
    /\ CanStart(i, k)
    /\ LET key == DetailKey(request[i], fixed_milestones[i][k])
       IN  /\ key \in DOMAIN milestone_details_cache
           /\ FinishTask(i, k, milestone_details_cache, key)
    /\ UNCHANGED <<project_milestones_cache, pc, handlerVars, listVars,
                   fixed_milestones, generated_text, detail_calls, budget>>

\* Variant: the detail stage is called with the name as the list stage
\* returned it.
TaskCallUnfixedName(i, k) ==
    /\ CanStart(i, k)
    /\ budget > 0
    /\ budget' = budget - 1
    /\ LET key == DetailKey(request[i], milestone_names[i][k])
       IN  /\ DetailKey(request[i], fixed_milestones[i][k])
                  \notin DOMAIN milestone_details_cache
           /\ detail_calls' = Put(detail_calls, key, DetailCallsFor(key) + 1)
    /\ task' = [task EXCEPT ![i][k] = "calling"]
    /\ UNCHANGED <<cacheVars, pc, handlerVars, listVars, fixed_milestones,
                   generated_text, results>>

\* A worker takes task k; the key is missing and ollama.chat is called.
TaskCall(i, k) ==
    /\ CanStart(i, k)
    /\ budget > 0
    /\ budget' = budget - 1
    /\ LET key == DetailKey(request[i], fixed_milestones[i][k])
       IN  /\ key \notin DOMAIN milestone_details_cache
           /\ detail_calls' = Put(detail_calls, key, DetailCallsFor(key) + 1)
    /\ task' = [task EXCEPT ![i][k] = "calling"]
    /\ UNCHANGED <<cacheVars, pc, handlerVars, listVars, fixed_milestones,
                   generated_text, results>>

\* ollama.chat returns one of texts for task k: the reply is parsed, stored
\* and returned.
TaskReplyFrom(i, k, texts) ==
    /\ pc[i] = "fanout"
    /\ k \in 1..Len(task[i])
    /\ task[i][k] = "calling"
    /\ \E content \in texts :
          LET milestone == fixed_milestones[i][k]
              key       == DetailKey(request[i], milestone)
          IN  /\ generated_text' = [generated_text EXCEPT ![i][k] = <<content>>]
              /\ FinishTask(i, k,
                     Put(milestone_details_cache, key,
                         ParseMilestoneDetails(content, milestone)),
                     key)
    /\ UNCHANGED <<project_milestones_cache, pc, handlerVars, listVars,
                   fixed_milestones, detail_calls, budget>>

TaskReply(i, k) == TaskReplyFrom(i, k, DetailReplies)

\* Every future has its result: the with block ends and run_model returns.
Return(i) ==
    /\ pc[i] = "fanout"
    /\ \A k \in 1..Len(task[i]) : task[i][k] = "done"
    /\ pc' = [pc EXCEPT ![i] = "done"]
    /\ UNCHANGED <<cacheVars, handlerVars, listVars, poolVars, budget>>

\* The longest list of names the list stage returns here.
MaxTasks == Len(DefaultMilestones)

Next ==
    \/ \E i \in DOMAIN pc : ListHit(i)
    \/ \E i \in DOMAIN pc : ListCall(i)
    \/ \E i \in DOMAIN pc : ListParsed(i)
    \/ \E i \in DOMAIN pc : ListRetry(i)
    \/ \E i \in DOMAIN pc : ListFallback(i)
    \/ \E i \in DOMAIN pc : Normalize(i)
    \/ \E i \in DOMAIN pc, k \in 1..MaxTasks : TaskHit(i, k)
    \/ \E i \in DOMAIN pc, k \in 1..MaxTasks : TaskCall(i, k)
    \/ \E i \in DOMAIN pc, k \in 1..MaxTasks : TaskReply(i, k)
    \/ \E i \in DOMAIN pc : Return(i)

\* With one invocation the list cache is empty at every entry.
NextSolo ==
    \/ \E i \in DOMAIN pc : ListCall(i)
    \/ \E i \in DOMAIN pc : ListParsed(i)
    \/ \E i \in DOMAIN pc : ListRetry(i)
    \/ \E i \in DOMAIN pc : ListFallback(i)
    \/ \E i \in DOMAIN pc : Normalize(i)
    \/ \E i \in DOMAIN pc, k \in 1..MaxTasks : TaskHit(i, k)
    \/ \E i \in DOMAIN pc, k \in 1..MaxTasks : TaskCall(i, k)
    \/ \E i \in DOMAIN pc, k \in 1..MaxTasks : TaskReply(i, k)
    \/ \E i \in DOMAIN pc : Return(i)

\* Concurrent invocations within MaxGatewayCalls gateway calls.
Spec == Init /\ [][Next]_vars

\* One invocation, run to its end.
SpecSolo == InitSolo /\ [][NextSolo]_vars

\* One invocation every gateway call of which returns, on threads that go on.
SpecSoloFair == SpecSolo /\ WF_vars(NextSolo)

(***************************************************************************)
(* The list stages of three requests                                       *)
(***************************************************************************)

\* Three requests served at the same time.
ThreeInvocations == {1, 2, 3}

\* The gateway answers the list calls of a list stage that falls back and
\* one list call more.
InitListStage == Start(ThreeInvocations, (1 + MaxRetries) + 1)

\* generate_project_milestones, from the call in run_model to its return.
NextListStage ==
    \/ \E i \in DOMAIN pc : ListHit(i)
    \/ \E i \in DOMAIN pc : ListCall(i)
    \/ \E i \in DOMAIN pc : ListParsed(i)
    \/ \E i \in DOMAIN pc : ListRetry(i)
    \/ \E i \in DOMAIN pc : ListFallback(i)

SpecListStage == InitListStage /\ [][NextListStage]_vars

(***************************************************************************)
(* Gateway failure: ollama.chat raises, and nothing catches it             *)
(***************************************************************************)

\* ollama.chat raises in the list stage: the exception leaves every pending
\* recursive call and run_model.
ListFail(i) ==
    /\ pc[i] = "wait"
    /\ pc' = [pc EXCEPT ![i] = "failed"]
    /\ UNCHANGED <<cacheVars, handlerVars, listVars, poolVars, budget>>

\* Variant: the failed call leaves a record with the name alone in the cache.
TaskFailStoresEmpty(i, k) ==
    /\ pc[i] = "fanout"
    /\ k \in 1..Len(task[i])
    /\ task[i][k] = "calling"
    /\ task' = [task EXCEPT ![i][k] = "failed"]
    /\ milestone_details_cache' =
           ((DetailKey(request[i], fixed_milestones[i][k])
                :> (<<"Milestone">> :> fixed_milestones[i][k]))
            @@ milestone_details_cache)
    /\ UNCHANGED <<project_milestones_cache, pc, handlerVars, listVars,
                   fixed_milestones, generated_text, results, detail_calls,
                   budget>>

\* ollama.chat raises in task k: the exception is set on the task's future.
TaskFail(i, k) ==
    /\ pc[i] = "fanout"
    /\ k \in 1..Len(task[i])
    /\ task[i][k] = "calling"
    /\ task' = [task EXCEPT ![i][k] = "failed"]
    /\ UNCHANGED <<cacheVars, pc, handlerVars, listVars, fixed_milestones,
                   generated_text, results, detail_calls, budget>>

\* list(executor.map(...)) takes the results in the order of the names: it
\* meets the exception when the first task that is not done has failed.
ExceptionMet(i) ==
    /\ pc[i] = "fanout"
    /\ \E k \in 1..Len(task[i]) :
          /\ task[i][k] = "failed"
          /\ \A j \in 1..(k - 1) : task[i][j] = "done"

\* The result iterator of executor.map, left by the exception, cancels the
\* futures that have not started, the last first; a worker may still take
\* one of them meanwhile.
CancelLast(i) ==
    /\ ExceptionMet(i)
    /\ \E k \in 1..Len(task[i]) :
          /\ task[i][k] = "queued"
          /\ \A j \in (k + 1)..Len(task[i]) : task[i][j] # "queued"
          /\ task' = [task EXCEPT ![i][k] = "cancelled"]
    /\ UNCHANGED <<cacheVars, pc, handlerVars, listVars, fixed_milestones,
                   generated_text, results, detail_calls, budget>>

\* The with block waits for the running tasks, then the exception leaves
\* run_model.
Raise(i) ==
    /\ ExceptionMet(i)
    /\ \A k \in 1..Len(task[i]) : task[i][k] \notin {"queued", "calling"}
    /\ pc' = [pc EXCEPT ![i] = "failed"]
    /\ UNCHANGED <<cacheVars, handlerVars, listVars, poolVars, budget>>

NextFailing ==
    \/ Next
    \/ \E i \in DOMAIN pc : ListFail(i)
    \/ \E i \in DOMAIN pc, k \in 1..MaxTasks : TaskFail(i, k)
    \/ \E i \in DOMAIN pc : CancelLast(i)
    \/ \E i \in DOMAIN pc : Raise(i)

\* Concurrent invocations whose gateway calls may fail.
SpecFailing == Init /\ [][NextFailing]_vars

(***************************************************************************)
(* The name fix on its own: run_model from the return of the list stage    *)
(***************************************************************************)

\* Names the list parser can return: stripped, not empty, without a comma.
NameSet ==
    { <<"a">>, <<"(", "b", ")">>, <<")", "(">>,
      <<"a", " ", "(">>, <<"b", ")">>, <<"(", "(">> }

\* Longest list of names handed to the fix.
MaxNames == 3

NameLists == UNION {[1..n -> NameSet] : n \in 1..MaxNames}

\* "Design (Phase 1", "continued)", "Testing": a name the parser split at
\* its inner comma, and the name after it.
SplitNameList ==
    << <<"Design", " ", "(", "Phase 1">>, <<"continued", ")">>, <<"Testing">> >>

\* One invocation whose list stage has just parsed names from its first reply.
AfterListStage(names) ==
    /\ HandlerIdle({1})
    /\ request \in [{1} -> Requests]
    /\ project_milestones_cache = (ListKey(request[1]) :> names)
    /\ milestone_details_cache = <<>>
    /\ attempts = [i \in {1} |-> 0]
    /\ milestone_names = [i \in {1} |-> names]
    /\ list_calls = [i \in {1} |-> 1]
    /\ list_reply = [i \in {1} |-> NoText]
    /\ empty_parses = [i \in {1} |-> 0]
    /\ list_origin = [i \in {1} |-> "parsed"]
    /\ preceded_by = [i \in {1} |-> {}]

InitNormalizer ==
    /\ \E names \in NameLists \cup {SplitNameList} : AfterListStage(names)
    /\ pc = [i \in {1} |-> "normalize"]
    /\ fixed_milestones = [i \in {1} |-> <<>>]
    /\ task = [i \in {1} |-> <<>>]
    /\ generated_text = [i \in {1} |-> <<>>]
    /\ results = [i \in {1} |-> <<>>]
    /\ detail_calls = <<>>
    /\ budget = CallsOfOneInvocation - 1

NextNormalizer == \E i \in DOMAIN pc : Normalize(i)

SpecNormalizer == InitNormalizer /\ [][NextNormalizer]_vars

(***************************************************************************)
(* The list stage on its own, with the replies of ListTexts                *)
(***************************************************************************)

\* "\n".join(lines)
RECURSIVE JoinLines(_)
JoinLines(list) ==
    TheOne({ IF lines = <<>> THEN <<>>
             ELSE IF Len(lines) = 1 THEN lines[1]
             ELSE lines[1] \o <<NL>> \o JoinLines(Tail(lines))
             : lines \in {list} })

\* Lines of a list reply.
ListLines ==
    { <<"Milestones", ":", " ", "a", ",", " ", "b", ",", " ", "c">>,
      <<" ", "MILESTONES", ":", " ", "d">>,
      <<"milestones", ":", " ", ",", " ", "e", " ", ",">>,
      <<"Milestones", ":", " ", "g", ":", " ", "h", ",", "i">>,
      <<"Milestones", ":">>,
      <<"Milestone", ":", " ", "x">>,
      <<"Here are the milestones", ":">> }

\* Most lines of a list reply.
MaxListLines == 2

\* The replies of at most MaxListLines lines.
ListTexts ==
    {JoinLines(lines) :
        lines \in UNION {[1..n -> ListLines] : n \in 0..MaxListLines}}

\* The list stage of one invocation, from its entry to its return.
NextListParser ==
    \/ \E i \in DOMAIN pc : ListCall(i)
    \/ \E i \in DOMAIN pc : ListParsedFrom(i, ListTexts)
    \/ \E i \in DOMAIN pc : ListRetryFrom(i, ListTexts)
    \/ \E i \in DOMAIN pc : ListFallbackFrom(i, ListTexts)

SpecListParser == InitSolo /\ [][NextListParser]_vars

(***************************************************************************)
(* The detail parser on its own: one task whose gateway call is pending    *)
(***************************************************************************)

\* Lines of a detail reply.
DetailLines ==
    { <<"Milestone", ":", " ", "Wrong">>,
      <<"Milestone", ":">>,
      <<"Task", ":", " ", "t1", ",", " ", "t2">>,
      <<" ", "Task", " ", ":", " ", "u">>,
      <<"task", ":", " ", "x">>,
      <<"Owner", ":", " ", "Alice">>,
      <<"KPI", ":", " ", "k", ":", " ", "v">>,
      <<"Time Estimate", " ", "(", "Days", ")", ":", " ", "3">>,
      <<"Risk Factors", ":", " ", "r">>,
      <<"Risk Indicator", ":", " ", "Low">>,
      <<"Task">>,
      <<":", " ", "v">> }

\* Most lines of a detail reply.
MaxLines == 2

\* The replies of at most MaxLines lines.
DetailTexts ==
    {JoinLines(lines) : lines \in UNION {[1..n -> DetailLines] : n \in 0..MaxLines}}

\* Lists the list stage returns: a name twice, a name split in two.
DetailMilestones ==
    { << <<"Testing">>, <<"Testing">> >>,
      << <<"D", " ", "(", "p">>, <<"c", ")">> >> }

\* One invocation whose first task waits for the gateway.
InitDetailParser ==
    /\ \E names \in DetailMilestones :
          /\ AfterListStage(names)
          /\ fixed_milestones = [i \in {1} |-> FixMilestones(names)]
    /\ pc = [i \in {1} |-> "fanout"]
    /\ task = [i \in {1} |->
                 [k \in 1..Len(fixed_milestones[1]) |->
                     IF k = 1 THEN "calling" ELSE "queued"]]
    /\ generated_text = [i \in {1} |->
                           [k \in 1..Len(fixed_milestones[1]) |-> NoText]]
    /\ results = [i \in {1} |->
                    [k \in 1..Len(fixed_milestones[1]) |-> Pending]]
    /\ detail_calls = (DetailKey(request[1], fixed_milestones[1][1]) :> 1)
    /\ budget = CallsOfOneInvocation - 2

\* The reply is parsed; a second task for the same name is served from the
\* cache; run_model returns.
NextDetailParser ==
    \/ \E i \in DOMAIN pc, k \in 1..MaxTasks : TaskReplyFrom(i, k, DetailTexts)
    \/ \E i \in DOMAIN pc, k \in 1..MaxTasks : TaskHit(i, k)
    \/ \E i \in DOMAIN pc : Return(i)

SpecDetailParser == InitDetailParser /\ [][NextDetailParser]_vars

(***************************************************************************)
(* index: the generated milestones are saved to the Milestones collection  *)
(***************************************************************************)

\* The characters 0..9; the digit d is DigitChars[d + 1].
DigitChars == <<"0", "1", "2", "3", "4", "5", "6", "7", "8", "9">>

\* str(n) for n >= 0, one token a character.
RECURSIVE Decimal(_)
Decimal(number) ==
    TheOne({ IF n < 10 THEN <<DigitChars[n + 1]>>
             ELSE Decimal(n \div 10) \o <<DigitChars[(n % 10) + 1]>>
             : n \in {number} })

\* f"m{n:03d}": at least three digits, zeros in front.
FormatId(number) ==
    TheOne({ <<"m">> \o [k \in 1..(3 - Len(digits)) |-> "0"] \o digits
             : digits \in {Decimal(number)} })

\* re.match(r"m(\d{3})$", id): <<int(group 1)>> on a match, <<>> without.
MatchNumber(id) ==
    IF /\ Len(id) = 4
       /\ id[1] = "m"
       /\ \A k \in 2..4 : \E d \in 1..10 : DigitChars[d] = id[k]
    THEN LET Digit(c) == (CHOOSE d \in 1..10 : DigitChars[d] = c) - 1
         IN  <<100 * Digit(id[2]) + 10 * Digit(id[3]) + Digit(id[4])>>
    ELSE <<>>

\* existing_milestone_numbers, sorted.
RECURSIVE SortedNumbers(_)
SortedNumbers(numbers) ==
    IF numbers = {} THEN <<>>
    ELSE LET least == CHOOSE n \in numbers : \A m \in numbers : n <= m
         IN  <<least>> \o SortedNumbers(numbers \ {least})

\* The scan of the sorted numbers: next_milestone_number when it ends.
RECURSIVE ScanNumbers(_, _)
ScanNumbers(numbers, next) ==
    TheOne({ IF existing_milestone_numbers = <<>> THEN next_number
             ELSE IF Head(existing_milestone_numbers) # next_number
             THEN next_number
             ELSE ScanNumbers(Tail(existing_milestone_numbers), next_number + 1)
             : <<existing_milestone_numbers, next_number>>
                   \in {<<numbers, next>>} })

\* next_milestone_number for the documents with the ids of ids.
NextMilestoneNumber(ids) ==
    ScanNumbers(
        SortedNumbers({MatchNumber(id)[1] : id \in {d \in ids : MatchNumber(d) # <<>>}}),
        1)

\* The query for the milestones of the project: some exist and they are the
\* response, or none exists and the generated ones are to be saved.
QueryExisting(i) ==
    /\ pc[i] = "done"
    /\ IF \E id \in DOMAIN milestone_collection :
              milestone_collection[id].ProjectID = project_id[i]
       THEN pc' = [pc EXCEPT ![i] = "responded"]
       ELSE pc' = [pc EXCEPT ![i] = "allocate"]
    /\ UNCHANGED <<cacheVars, request, project_id, milestone_collection,
                   milestone_docs, next_milestone_number, saved, listVars,
                   poolVars, budget>>

\* milestone_collection.get() and the scan for the next number.
Allocate(i) ==
    /\ pc[i] = "allocate"
    /\ milestone_docs' = [milestone_docs EXCEPT ![i] = DOMAIN milestone_collection]
    /\ next_milestone_number' =
           [next_milestone_number EXCEPT
               ![i] = NextMilestoneNumber(DOMAIN milestone_collection)]
    /\ pc' = [pc EXCEPT ![i] = "save"]
    /\ UNCHANGED <<cacheVars, request, project_id, milestone_collection, saved,
                   listVars, poolVars, budget>>

\* One turn of the saving loop: the document of the next generated milestone
\* is set under the next id.
SaveOne(i) ==
    /\ pc[i] = "save"
    /\ saved[i] < Len(results[i])
    /\ LET milestone_id == FormatId(next_milestone_number[i])
           milestone    == results[i][saved[i] + 1]
       IN  milestone_collection' =
               Put(milestone_collection, milestone_id,
                   [ProjectID |-> project_id[i],
                    Milestone |-> milestone[<<"Milestone">>],
                    MilestoneID |-> milestone_id])
    /\ next_milestone_number' = [next_milestone_number EXCEPT ![i] = @ + 1]
    /\ saved' = [saved EXCEPT ![i] = @ + 1]
    /\ UNCHANGED <<cacheVars, pc, request, project_id, milestone_docs,
                   listVars, poolVars, budget>>

\* Every generated milestone is saved: the milestones of the project are
\* read back and returned.
Respond(i) ==
    /\ pc[i] = "save"
    /\ saved[i] = Len(results[i])
    /\ pc' = [pc EXCEPT ![i] = "responded"]
    /\ UNCHANGED <<cacheVars, handlerVars, listVars, poolVars, budget>>

\* Greatest number of a document the collection holds at the start.
MaxStoredNumber == 4

\* Ids of the documents the collection may hold at the start: m000 to the
\* greatest number, and one that is not of the form m + three digits.
StoredIds ==
    {FormatId(n) : n \in 0..MaxStoredNumber} \cup {<<"m", "1", "0", "0", "0">>}

\* The collections at the start: documents of the project of the request
\* and of another.
StoredCollections ==
    UNION { [ids -> {[ProjectID |-> p, Milestone |-> <<"stored">>,
                      MilestoneID |-> <<"stored">>] : p \in ProjectIds}]
            : ids \in SUBSET StoredIds }

\* run_model has returned the records of the names A, A to index: the list
\* stage parsed them from its first reply, the first task got the reply
\* DetailReplyEmpty and the second its record from the cache.
InitHandler ==
    /\ request \in [{1} -> Requests]
    /\ project_id = [i \in {1} |-> "p1"]
    /\ \E stored \in StoredCollections :
          milestone_collection =
              [id \in DOMAIN stored |-> [stored[id] EXCEPT !.MilestoneID = id]]
    /\ milestone_docs = [i \in {1} |-> {}]
    /\ next_milestone_number = [i \in {1} |-> 0]
    /\ saved = [i \in {1} |-> 0]
    /\ pc = [i \in {1} |-> "done"]
    /\ attempts = [i \in {1} |-> 0]
    /\ milestone_names = [i \in {1} |-> ParseMilestoneList(ListReplyRepeated)]
    /\ list_calls = [i \in {1} |-> 1]
    /\ list_reply = [i \in {1} |-> <<ListReplyRepeated>>]
    /\ empty_parses = [i \in {1} |-> 0]
    /\ list_origin = [i \in {1} |-> "parsed"]
    /\ preceded_by = [i \in {1} |-> {}]
    /\ project_milestones_cache =
           (ListKey(request[1]) :> milestone_names[1])
    /\ fixed_milestones = [i \in {1} |-> FixMilestones(milestone_names[1])]
    /\ task = [i \in {1} |-> [k \in 1..Len(fixed_milestones[1]) |-> "done"]]
    /\ generated_text =
           [i \in {1} |->
               [k \in 1..Len(fixed_milestones[1]) |->
                   IF k = 1 THEN <<DetailReplyEmpty>> ELSE NoText]]
    /\ milestone_details_cache =
           (DetailKey(request[1], fixed_milestones[1][1])
                :> ParseMilestoneDetails(DetailReplyEmpty, fixed_milestones[1][1]))
    /\ results =
           [i \in {1} |->
               [k \in 1..Len(fixed_milestones[1]) |->
                   NewRow(request[1].project_name,
                          request[1].project_description,
                          ParseMilestoneDetails(DetailReplyEmpty,
                                                fixed_milestones[1][k]))]]
    /\ detail_calls = (DetailKey(request[1], fixed_milestones[1][1]) :> 1)
    /\ budget = CallsOfOneInvocation - 2

NextHandler ==
    \/ \E i \in DOMAIN pc : QueryExisting(i)
    \/ \E i \in DOMAIN pc : Allocate(i)
    \/ \E i \in DOMAIN pc : SaveOne(i)
    \/ \E i \in DOMAIN pc : Respond(i)

SpecHandler == InitHandler /\ [][NextHandler]_vars

(***************************************************************************)
(* Properties                                                              *)
(***************************************************************************)

\* The list stage of invocation i has returned to run_model.
ListStageEnded(i) == pc[i] \in {"normalize", "fanout", "done"}

\* The names of invocation i have been handed to the fan-out.
HandedOver(i) == pc[i] \in {"fanout", "done"}

\* The Milestone entry of a row, empty for a row without one.
MilestoneOf(row) ==
    IF MilestoneKey \in DOMAIN row THEN row[MilestoneKey] ELSE <<>>

\* C1: the records of run_model stand in the order of the normalized names,
\* one per name: while the workers run, the row of every finished task sits
\* at the position of its name and carries that name as Milestone, and every
\* other position is still pending; when run_model returns, there are as
\* many records as names and record k carries name k.
C1_OrderPreserved ==
    \A i \in DOMAIN pc :
        HandedOver(i) =>
            /\ Len(results[i]) = Len(fixed_milestones[i])
            /\ \A k \in 1..Len(fixed_milestones[i]) :
                  IF task[i][k] = "done"
                  THEN MilestoneOf(results[i][k]) = fixed_milestones[i][k]
                  ELSE results[i][k] = Pending
            /\ pc[i] = "done" =>
                  \A k \in 1..Len(fixed_milestones[i]) : task[i][k] = "done"

\* More names than workers, and a later task has finished while an earlier
\* one still waits for the gateway.
C1_Witness ==
    \E i \in DOMAIN pc :
        /\ pc[i] = "fanout"
        /\ Len(fixed_milestones[i]) > max_workers
        /\ \E j, k \in 1..Len(fixed_milestones[i]) :
              /\ j < k
              /\ task[i][j] = "calling"
              /\ task[i][k] = "done"
              /\ MilestoneOf(results[i][k]) = fixed_milestones[i][k]

\* C2: a list stage that has returned has returned at least one name,
\* however many empty parses it saw on the way.
C2_NonEmptyNames ==
    \A i \in DOMAIN pc : ListStageEnded(i) => milestone_names[i] # <<>>

\* A list stage that saw an empty parse and has returned.
C2_Witness ==
    \E i \in DOMAIN pc :
        /\ ListStageEnded(i)
        /\ empty_parses[i] >= 1
        /\ milestone_names[i] # <<>>

\* C3 as stated: once a list stage has seen 3 empty parses, what it returns
\* is the sequence of the 9 default milestones.
C3_Original ==
    \A i \in DOMAIN pc :
        (ListStageEnded(i) /\ empty_parses[i] >= 3) =>
            milestone_names[i] = DefaultMilestones

\* C3, amended: the fallback takes 4 empty parses, those of the attempts
\* 0..3.  A list stage that has seen 4 empty parses returns exactly the 9
\* default milestones, Product Backlog Creation to Post-Release Support &
\* Maintenance, and a list stage returns the defaults on its own account
\* only after 4 empty parses.
C3_FallbackAfterFourEmptyParses ==
    \A i \in DOMAIN pc :
        ListStageEnded(i) =>
            /\ empty_parses[i] >= 4 =>
                  /\ list_origin[i] = "fallback"
                  /\ milestone_names[i] = DefaultMilestones
                  /\ Len(milestone_names[i]) = 9
                  /\ milestone_names[i][1] = <<"Product Backlog Creation">>
                  /\ milestone_names[i][9] =
                         <<"Post-Release Support & Maintenance">>
            /\ list_origin[i] = "fallback" => empty_parses[i] = 4

\* A list stage that has ended in the fallback.
C3_Witness ==
    \E i \in DOMAIN pc :
        /\ ListStageEnded(i)
        /\ empty_parses[i] = 4
        /\ list_origin[i] = "fallback"
        /\ milestone_names[i] = DefaultMilestones

\* C4 as stated: of two calls with the same inputs, the second entered after
\* the first returned, the two together make at most one gateway call and
\* the second returns what the first returned.
C4_Original ==
    \A j \in DOMAIN pc : \A i \in preceded_by[j] :
        /\ list_calls[i] + list_calls[j] <= 1
        /\ ListStageEnded(j) => milestone_names[j] = milestone_names[i]

\* C4, amended: the second call makes no gateway call and returns, from the
\* cache, what the first call returned; the first call made one gateway
\* call for each of its attempts, between 1 and 4.
C4_SecondCallFromCache ==
    \A j \in DOMAIN pc : \A i \in preceded_by[j] :
        /\ list_calls[i] \in 1..(MaxRetries + 1)
        /\ list_calls[i] = attempts[i] + 1
        /\ list_calls[j] = 0
        /\ list_origin[j] = "cache"
        /\ milestone_names[j] = milestone_names[i]

\* A second call served from the cache after a first call that retried.
C4_Witness ==
    \E j \in DOMAIN pc : \E i \in preceded_by[j] :
        /\ list_calls[i] >= 2
        /\ list_calls[j] = 0
        /\ milestone_names[j] = milestone_names[i]
        /\ milestone_names[j] # <<>>

\* C5 as stated: the gateway is called at most once for a detail cache key.
C5_Original ==
    \A key \in DOMAIN detail_calls : detail_calls[key] <= 1

\* C6 as stated: an invocation that has retried has made a gateway call at
\* each of its attempts, and does not return a list it found in the cache.
C6_Original ==
    \A i \in DOMAIN pc :
        (attempts[i] >= 1 /\ pc[i] # "entry") =>
            /\ list_calls[i] = attempts[i] + 1
            /\ list_origin[i] # "cache"

\* Invocations with the inputs of i that stored what they returned.
Writers(i) ==
    {j \in DOMAIN pc \ {i} :
        /\ request[j] = request[i]
        /\ list_origin[j] \in {"parsed", "fallback"}}

\* C6, amended: the list cache is read on entry at every attempt.  A retry
\* makes a fresh gateway call unless another invocation with the same inputs
\* has stored a list since, and then it returns that list without a gateway
\* call.  The cache is written only at final success or fallback: each of
\* its values is the list some invocation parsed or fell back to.
C6_RetryReadsCache ==
    /\ \A i \in DOMAIN pc :
          (attempts[i] >= 1 /\ pc[i] # "entry") =>
              IF list_origin[i] = "cache"
              THEN /\ list_calls[i] = attempts[i]
                   /\ \E j \in Writers(i) :
                         milestone_names[i] = milestone_names[j]
              ELSE list_calls[i] = attempts[i] + 1
    /\ \A key \in DOMAIN project_milestones_cache :
          \E j \in DOMAIN pc :
              /\ ListKey(request[j]) = key
              /\ list_origin[j] \in {"parsed", "fallback"}
              /\ project_milestones_cache[key] = milestone_names[j]

\* A retry that returned the list another invocation had stored meanwhile.
C6_Witness ==
    \E i \in DOMAIN pc :
        /\ attempts[i] >= 1
        /\ list_origin[i] = "cache"
        /\ list_calls[i] = attempts[i]

\* Every name of the list differs from every other.
Distinct(names) ==
    \A j, k \in 1..Len(names) : j # k => names[j] # names[k]

\* As many '(' as ')'.
SameParenCounts(name) ==
    Cardinality({p \in 1..Len(name) : name[p] = "("})
        = Cardinality({p \in 1..Len(name) : name[p] = ")"})

\* C7 as stated: the names handed to the fan-out are pairwise distinct and
\* each of them is balanced.
C7_Original ==
    \A i \in DOMAIN pc :
        HandedOver(i) =>
            /\ Distinct(fixed_milestones[i])
            /\ \A k \in 1..Len(fixed_milestones[i]) :
                  SameParenCounts(fixed_milestones[i][k])

\* C7, amended: of the names handed to the fan-out, every one but the last
\* is balanced, and none is empty; the last may be unbalanced and a name may
\* occur twice.
C7_BalancedButLast ==
    \A i \in DOMAIN pc :
        HandedOver(i) =>
            /\ fixed_milestones[i] # <<>>
            /\ \A k \in 1..Len(fixed_milestones[i]) :
                  /\ fixed_milestones[i][k] # <<>>
                  /\ k < Len(fixed_milestones[i]) =>
                        SameParenCounts(fixed_milestones[i][k])

\* Names handed over after a merge, the last of them unbalanced.
C7_Witness ==
    \E i \in DOMAIN pc :
        /\ HandedOver(i)
        /\ Len(fixed_milestones[i]) < Len(milestone_names[i])
        /\ ~SameParenCounts(fixed_milestones[i][Len(fixed_milestones[i])])

\* The detail record stored for task k of invocation i.
DetailRecord(i, k) ==
    milestone_details_cache[DetailKey(request[i], fixed_milestones[i][k])]

\* C8: whatever the reply said on its Milestone line, or if it had none, the
\* detail record of a finished task and the row built from it carry the
\* name the task was started for; so does the row of a task that was served
\* from the detail cache.
C8_MilestoneForced ==
    \A i \in DOMAIN pc : \A k \in 1..Len(task[i]) :
        task[i][k] = "done" =>
            /\ MilestoneOf(DetailRecord(i, k)) = fixed_milestones[i][k]
            /\ MilestoneOf(results[i][k]) = fixed_milestones[i][k]

\* A reply that echoed another name, and a second task served from the cache.
C8_Witness ==
    \E i \in DOMAIN pc :
        /\ Len(task[i]) = 2
        /\ task[i][1] = "done"
        /\ generated_text[i][1] = << <<"Milestone", ":", " ", "Wrong">> >>
        /\ task[i][2] = "done"
        /\ generated_text[i][2] = NoText
        /\ MilestoneOf(results[i][2]) = fixed_milestones[i][2]

\* The five labels a detail record may carry besides Milestone.
OtherLabels ==
    { <<"Task">>, <<"Time Estimate", " ", "(", "Days", ")">>, <<"KPI">>,
      <<"Risk Factors">>, <<"Risk Indicator">> }

\* The trimmed keys of the colon-containing lines of a text: for a line
\* text[a..b] whose first colon is at c, the text before c without the
\* blanks at its ends.
KeysOfReply(text) ==
    { Strip(SubSeq(text, abc[1], abc[3] - 1)) :
        abc \in { x \in (1..Len(text)) \X (1..Len(text)) \X (1..Len(text)) :
                    /\ x[1] <= x[3] /\ x[3] <= x[2]
                    /\ (x[1] = 1 \/ text[x[1] - 1] = NL)
                    /\ (x[2] = Len(text) \/ text[x[2] + 1] = NL)
                    /\ \A p \in x[1]..x[2] : text[p] # NL
                    /\ text[x[3]] = ":"
                    /\ \A p \in x[1]..(x[3] - 1) : text[p] # ":" } }

\* The two entries process_milestone puts before the details.
RowLabels == { <<"Project Name">>, <<"Project Description">> }

\* C9: the fields of the detail record a reply gives are Milestone and those
\* of the five other labels that are the trimmed key of a line of the reply
\* with a colon, case as written; no other key adds a field, no missing
\* label is filled in, and the task ends with its row whatever the lines.
C9_FieldSet ==
    \A i \in DOMAIN pc : \A k \in 1..Len(task[i]) :
        generated_text[i][k] # NoText =>
            /\ task[i][k] = "done"
            /\ DOMAIN DetailRecord(i, k) =
                   {MilestoneKey}
                       \cup (OtherLabels \cap KeysOfReply(generated_text[i][k][1]))
            /\ DOMAIN results[i][k] = DOMAIN DetailRecord(i, k) \cup RowLabels

\* A reply with an Owner line and a Task line: the record has Milestone and
\* Task and nothing else.
C9_Witness ==
    \E i \in DOMAIN pc : \E k \in 1..Len(task[i]) :
        /\ generated_text[i][k] =
               << <<"Owner", ":", " ", "Alice", NL,
                    "Task", ":", " ", "t1", ",", " ", "t2">> >>
        /\ DOMAIN DetailRecord(i, k) = {MilestoneKey, <<"Task">>}

\* C10: when every name the list stage returned is balanced, the names
\* handed to the fan-out are those names, entry for entry.
C10_BalancedUnchanged ==
    \A i \in DOMAIN pc :
        (/\ HandedOver(i)
         /\ \A k \in 1..Len(milestone_names[i]) :
               SameParenCounts(milestone_names[i][k])) =>
            fixed_milestones[i] = milestone_names[i]

\* Three balanced names, one of them with parentheses, handed over as they are.
C10_Witness ==
    \E i \in DOMAIN pc :
        /\ HandedOver(i)
        /\ Len(milestone_names[i]) = 3
        /\ \A k \in 1..3 : SameParenCounts(milestone_names[i][k])
        /\ \E k \in 1..3 : Contains(milestone_names[i][k], "(")
        /\ fixed_milestones[i] = milestone_names[i]

\* ", ".join(names[s..e])
RECURSIVE JoinNames(_, _, _)
JoinNames(names, s, e) ==
    IF s > e THEN <<>>
    ELSE IF s = e THEN names[s]
    ELSE JoinNames(names, s, e - 1) \o <<",", " ">> \o names[e]

\* Where the run that starts at entry s ends: at the first entry up to which
\* the join is balanced, at the last entry when there is none.
RunEnd(names, s) ==
    LET balanced == {e \in s..Len(names) : SameParenCounts(JoinNames(names, s, e))}
    IN  IF balanced = {} THEN Len(names)
        ELSE CHOOSE e \in balanced : \A f \in balanced : e <= f

\* The joins of the runs of names from entry s on.
RECURSIVE Runs(_, _)
Runs(names, s) ==
    IF s > Len(names) THEN <<>>
    ELSE <<JoinNames(names, s, RunEnd(names, s))>>
             \o Runs(names, RunEnd(names, s) + 1)

\* C11: the names handed to the fan-out are the ', '-joins of the runs of
\* the returned names, each run the shortest one from the first entry not
\* yet used whose join is balanced, or all the entries left when there is
\* none; so an unbalanced name can only be the last.
C11_ShortestBalancedRuns ==
    \A i \in DOMAIN pc :
        HandedOver(i) =>
            /\ fixed_milestones[i] = Runs(milestone_names[i], 1)
            /\ \A k \in 1..Len(fixed_milestones[i]) :
                  ~SameParenCounts(fixed_milestones[i][k]) =>
                      k = Len(fixed_milestones[i])

\* "Design (Phase 1", "continued)", "Testing" handed over as
\* "Design (Phase 1, continued)", "Testing".
C11_Witness ==
    \E i \in DOMAIN pc :
        /\ HandedOver(i)
        /\ milestone_names[i] = SplitNameList
        /\ fixed_milestones[i] =
               << <<"Design", " ", "(", "Phase 1", ",", " ", "continued", ")">>,
                  <<"Testing">> >>

\* A gateway call of invocation i fails in this step.
CallFails(i) ==
    \/ pc[i] = "wait" /\ pc'[i] = "failed"
    \/ \E k \in 1..Len(task[i]) :
          task[i][k] = "calling" /\ task'[i][k] = "failed"

\* A detail call of invocation i has failed.
SomeTaskFailed(i) == \E k \in 1..Len(task[i]) : task[i][k] = "failed"

\* C12: a failed gateway call, in the list stage or in a task, is not
\* caught.  The step in which it fails leaves both caches as they were; an
\* invocation one of whose calls failed does not return records, neither
\* then nor later, and an invocation that returns has every one of its
\* records.
C12_FailurePropagates ==
    /\ [](\A i \in DOMAIN pc :
             /\ SomeTaskFailed(i) => pc[i] \in {"fanout", "failed"}
             /\ pc[i] = "done" =>
                   \A k \in 1..Len(task[i]) :
                       task[i][k] = "done" /\ results[i][k] # Pending)
    /\ [][\A i \in DOMAIN pc :
             /\ CallFails(i) =>
                   /\ project_milestones_cache' = project_milestones_cache
                   /\ milestone_details_cache' = milestone_details_cache
             /\ pc[i] = "failed" => pc'[i] = "failed"]_vars

\* An invocation that has raised after one of its tasks was done and another
\* failed: the record of the first is not returned, and the detail cache
\* has no entry for the key of the second.
C12_Witness ==
    \E i \in DOMAIN pc :
        /\ pc[i] = "failed"
        /\ \E j, k \in 1..Len(task[i]) :
              /\ task[i][j] = "done"
              /\ results[i][j] # Pending
              /\ task[i][k] = "failed"
              /\ DetailKey(request[i], fixed_milestones[i][k])
                     \notin DOMAIN milestone_details_cache

\* The label of the list line, in the cases a reply may write it.
LabelSpellings == {"Milestones", "MILESTONES", "milestones"}

\* The positions of text at which a line begins with the label and a colon.
LabelStarts(text) ==
    {a \in 1..(Len(text) - 1) :
        /\ a = 1 \/ text[a - 1] = NL
        /\ text[a] \in LabelSpellings
        /\ text[a + 1] = ":"}

\* The position just after the part of text from c on that holds no sep.
StopAt(text, c, seps) ==
    LET stops == {p \in c..Len(text) : text[p] \in seps}
    IN  IF stops = {} THEN Len(text) + 1
        ELSE CHOOSE p \in stops : \A q \in stops : p <= q

\* The trimmed, non-empty pieces between the commas of text[from..e], in
\* order.
RECURSIVE PiecesFrom(_, _, _)
PiecesFrom(text, from, e) ==
    TheOne({ IF c > e + 1 THEN <<>>
             ELSE TheOne({ (IF Strip(SubSeq(text, c, d - 1)) # <<>>
                            THEN <<Strip(SubSeq(text, c, d - 1))>>
                            ELSE <<>>)
                               \o PiecesFrom(text, d + 1, e)
                           : d \in {StopAt(SubSeq(text, 1, e), c, {","})} })
             : c \in {from} })

\* The names of the first line of a text that begins with the label: the
\* pieces after its first colon; no name when no line begins with the label.
FirstLabelNames(str) ==
    TheOne({ IF LabelStarts(text) = {} THEN <<>>
             ELSE TheOne({ PiecesFrom(text, a + 2, StopAt(text, a, {NL}) - 1)
                           : a \in {CHOOSE p \in LabelStarts(text) :
                                        \A q \in LabelStarts(text) : p <= q} })
             : text \in {str} })

\* What the list stage made of its last reply, against the names expected
\* of that reply: a parsed list is the expected names, and a reply that
\* led to a retry or to the fallback has no expected name.
ListStageFollows(i, expected) ==
    IF list_origin[i] = "parsed"
    THEN expected # <<>> /\ milestone_names[i] = expected
    ELSE expected = <<>>

\* C13 as stated: the names are those of the first line of the reply that
\* begins with the label.
C13_Original ==
    \A i \in DOMAIN pc :
        list_reply[i] # NoText =>
            ListStageFollows(i, FirstLabelNames(list_reply[i][1]))

\* C13, amended: the reply is first trimmed as a whole, its lines are not
\* trimmed one by one.  The names are the trimmed, non-empty pieces between
\* the commas after the first colon of the first line of the trimmed reply
\* that begins, in any case, with "milestones:"; every other line is
\* ignored, later labelled lines too, and there is no name when no line
\* begins with the label.
C13_FirstLabelledLine ==
    \A i \in DOMAIN pc :
        list_reply[i] # NoText =>
            ListStageFollows(i, FirstLabelNames(Strip(list_reply[i][1])))

\* "Milestones: a, b, c" followed by a second labelled line gives a, b, c.
C13_Witness ==
    \E i \in DOMAIN pc :
        /\ list_reply[i] =
               << <<"Milestones", ":", " ", "a", ",", " ", "b", ",", " ", "c", NL,
                    "milestones", ":", " ", ",", " ", "e", " ", ",">> >>
        /\ milestone_names[i] = << <<"a">>, <<"b">>, <<"c">> >>

\* C14: the list stage of an invocation makes one gateway call at each of
\* its attempts 0..3, so 4 at most; it has called itself again only on a
\* reply without a name, and a reply with a name has ended it; it makes no
\* call once it has ended, and when every gateway call returns it does end.
C14_BoundedRetry ==
    /\ [](\A i \in DOMAIN pc :
             /\ attempts[i] \in 0..3
             /\ list_calls[i] <= 1 + 3
             /\ list_calls[i] \in {attempts[i], attempts[i] + 1}
             /\ list_reply[i] # NoText =>
                   IF FirstLabelNames(Strip(list_reply[i][1])) = <<>>
                   THEN empty_parses[i] = list_calls[i] \/ pc[i] = "wait"
                   ELSE /\ ListStageEnded(i)
                        /\ empty_parses[i] = list_calls[i] - 1)
    /\ [][\A i \in DOMAIN pc :
             /\ attempts'[i] # attempts[i] =>
                   /\ attempts'[i] = attempts[i] + 1
                   /\ empty_parses'[i] = empty_parses[i] + 1
                   /\ pc[i] = "wait" /\ pc'[i] = "entry"
             /\ ListStageEnded(i) =>
                   /\ ListStageEnded(i)'
                   /\ list_calls'[i] = list_calls[i]]_vars
    /\ <>(\A i \in DOMAIN pc : ListStageEnded(i))

\* A list stage ended by the reply to its fourth call, the first with a name.
C14_Witness ==
    \E i \in DOMAIN pc :
        /\ ListStageEnded(i)
        /\ list_calls[i] = 4
        /\ empty_parses[i] = 3
        /\ list_origin[i] = "parsed"

\* The detail cache keys of the tasks invocation i has started.
StartedKeys(i) ==
    {DetailKey(request[i], fixed_milestones[i][k]) :
        k \in {j \in 1..Len(task[i]) : task[i][j] # "queued"}}

\* C15: an invocation has tasks only once its list stage has returned, by a
\* parse, the fallback or the cache, and its names have been fixed; the
\* gateway call of a task starts in a step of an invocation whose names had
\* been handed over, and every detail call made is the call of a started
\* task, for one of the names handed over.
C15_ListBeforeFanOut ==
    /\ [](\A i \in DOMAIN pc :
             IF HandedOver(i)
             THEN /\ list_origin[i] \in {"parsed", "fallback", "cache"}
                  /\ milestone_names[i] # <<>>
                  /\ fixed_milestones[i] = Runs(milestone_names[i], 1)
                  /\ Len(task[i]) = Len(fixed_milestones[i])
             ELSE task[i] = <<>> /\ fixed_milestones[i] = <<>>)
    /\ [](DOMAIN detail_calls \subseteq UNION {StartedKeys(i) : i \in DOMAIN pc})
    /\ [][detail_calls' # detail_calls =>
             \E i \in DOMAIN pc :
                 /\ HandedOver(i)
                 /\ \E k \in 1..Len(task[i]) :
                       /\ task[i][k] = "queued"
                       /\ task'[i][k] = "calling"
                       /\ DetailCallsFor(
                              DetailKey(request[i], fixed_milestones[i][k]))' =
                          DetailCallsFor(
                              DetailKey(request[i], fixed_milestones[i][k])) + 1
                 /\ UNCHANGED <<milestone_names, fixed_milestones, list_calls>>]_vars

\* A detail call for a merged name, after a list stage that retried.
C15_Witness ==
    \E i \in DOMAIN pc :
        /\ HandedOver(i)
        /\ list_calls[i] >= 2
        /\ Len(fixed_milestones[i]) < Len(milestone_names[i])
        /\ \E k \in 1..Len(task[i]) :
              /\ task[i][k] = "calling"
              /\ fixed_milestones[i][k] \notin
                     {milestone_names[i][j] : j \in 1..Len(milestone_names[i])}
              /\ DetailKey(request[i], fixed_milestones[i][k])
                     \in DOMAIN detail_calls

\* C16: at no moment are more than 5 tasks of an invocation started and not
\* finished, however many names it has; and when every gateway call
\* returns, each of its names gets its record and run_model returns.
C16_AtMostFiveInFlight ==
    /\ [](\A i \in DOMAIN pc :
             Cardinality({k \in 1..Len(task[i]) : task[i][k] = "calling"}) <= 5)
    /\ <>(\A i \in DOMAIN pc :
             /\ pc[i] = "done"
             /\ \A k \in 1..Len(fixed_milestones[i]) :
                   /\ task[i][k] = "done"
                   /\ MilestoneOf(results[i][k]) = fixed_milestones[i][k])

\* Nine names, five of them in flight and the others waiting for a worker.
C16_Witness ==
    \E i \in DOMAIN pc :
        /\ Len(fixed_milestones[i]) = 9
        /\ Cardinality({k \in 1..9 : task[i][k] = "calling"}) = 5
        /\ Cardinality({k \in 1..9 : task[i][k] = "queued"}) = 4

\* C17 as stated: a key that is in the list cache or in the detail cache
\* stays in it, and with the value it has, in every step of every
\* interleaving of the invocations.
C17_Original ==
    [][/\ \A key \in DOMAIN project_milestones_cache :
             /\ key \in DOMAIN project_milestones_cache'
             /\ project_milestones_cache'[key] = project_milestones_cache[key]
       /\ \A key \in DOMAIN milestone_details_cache :
             /\ key \in DOMAIN milestone_details_cache'
             /\ milestone_details_cache'[key] = milestone_details_cache[key]]_vars

\* C18 as stated: a list stage entered after a list stage with the same
\* inputs has ended in the fallback returns the 9 default milestones and
\* makes no gateway call.
C18_Original ==
    \A j \in DOMAIN pc : \A i \in preceded_by[j] :
        list_origin[i] = "fallback" =>
            /\ list_calls[j] = 0
            /\ ListStageEnded(j) => milestone_names[j] = DefaultMilestones

\* C19: the names handed to the fan-out, joined with ", ", are the returned
\* names joined with ", "; they are not more than the returned names; and
\* the fix applied to them gives them back.
C19_NothingLostNothingInvented ==
    \A i \in DOMAIN pc :
        HandedOver(i) =>
            /\ JoinNames(fixed_milestones[i], 1, Len(fixed_milestones[i]))
                   = JoinNames(milestone_names[i], 1, Len(milestone_names[i]))
            /\ Len(fixed_milestones[i]) <= Len(milestone_names[i])
            /\ FixMilestones(fixed_milestones[i]) = fixed_milestones[i]

\* Three names fixed to two, the second of them unbalanced: the join is
\* kept and fixing again changes nothing.
C19_Witness ==
    \E i \in DOMAIN pc :
        /\ HandedOver(i)
        /\ Len(milestone_names[i]) = 3
        /\ Len(fixed_milestones[i]) = 2
        /\ ~SameParenCounts(fixed_milestones[i][2])
        /\ JoinNames(fixed_milestones[i], 1, 2) = JoinNames(milestone_names[i], 1, 3)
        /\ FixMilestones(fixed_milestones[i]) = fixed_milestones[i]

\* The ids index has given to the milestones it has saved.
AssignedIds(i) ==
    {FormatId(next_milestone_number[i] - j) : j \in 1..saved[i]}

\* The numbers n >= 1 for which ids has no document m + n in three digits.
UnusedNumbers(ids) == {n \in 1..999 : FormatId(n) \notin ids}

\* C20 as stated: the ids given to the saved milestones start at the lowest
\* number that was unused when index read the collection and go up by one a
\* milestone; none of them is the id of a document that was there; no
\* document is ever replaced; and when index finds milestones of the
\* ProjectID it saves nothing.
C20_Original ==
    /\ [](\A i \in DOMAIN pc :
             pc[i] \in {"save", "responded"} =>
                 /\ AssignedIds(i) \cap milestone_docs[i] = {}
                 /\ saved[i] > 0 =>
                       \A n \in UnusedNumbers(milestone_docs[i]) :
                           next_milestone_number[i] - saved[i] <= n)
    /\ [][/\ \A id \in DOMAIN milestone_collection :
                /\ id \in DOMAIN milestone_collection'
                /\ milestone_collection'[id] = milestone_collection[id]
          /\ \A i \in DOMAIN pc :
                (/\ pc[i] = "done"
                 /\ \E id \in DOMAIN milestone_collection :
                       milestone_collection[id].ProjectID = project_id[i]) =>
                    /\ pc'[i] = "responded"
                    /\ saved'[i] = 0]_vars

=============================================================================
